---- MODULE Spec2Model ----
(***************************************************************************)
(* A model of guild_tracker.py: the CSV ledger of (date, name, level)      *)
(* rows, the driver main() that fetches, appends and analyses, and the     *)
(* trend and projection analyses over trailing windows of distinct dates.  *)
(*                                                                         *)
(* Text (a CSV field, a name, a date) is a sequence of one-character       *)
(* strings, so that ordering, int() and str() are computed and not         *)
(* assumed.  Python's None is the value None below, which is no text.      *)
(***************************************************************************)
EXTENDS Integers, Sequences, FiniteSets, TLC

\* ------------------------------------------------------------------ bounds
MaxDates == 8      \* ledgers of the analysis specification hold 0..MaxDates dates
MaxRuns == 3       \* runs of main() in the driver specification
MaxDay == 3        \* days the clock of the driver specification can reach

\* ------------------------------------------------------------------- text
None == <<"None">>

\* The code points of the characters used (the order sorted() compares by).
CodePoint ==
    "+" :> 43 @@ "-" :> 45 @@
    "0" :> 48 @@ "1" :> 49 @@ "2" :> 50 @@ "3" :> 51 @@ "4" :> 52 @@
    "5" :> 53 @@ "6" :> 54 @@ "7" :> 55 @@ "8" :> 56 @@ "9" :> 57 @@
    "A" :> 65 @@ "B" :> 66 @@
    "a" :> 97 @@ "d" :> 100 @@ "e" :> 101 @@ "l" :> 108 @@ "m" :> 109 @@
    "n" :> 110 @@ "t" :> 116 @@ "v" :> 118 @@ "x" :> 120

Ord(c) == CodePoint[c]

Digits == <<"0", "1", "2", "3", "4", "5", "6", "7", "8", "9">>

IsDigit(c) == Ord("0") <= Ord(c) /\ Ord(c) <= Ord("9")

DigitVal(c) == Ord(c) - Ord("0")

\* a < b for two texts, as Python compares str: by the code points at the
\* first position where they differ, else the shorter one is the smaller.
RECURSIVE StrLessFrom(_, _, _)
StrLessFrom(a, b, i) ==
    IF i > Len(b) THEN FALSE
    ELSE IF i > Len(a) THEN TRUE
    ELSE IF a[i] = b[i] THEN StrLessFrom(a, b, i + 1)
    ELSE Ord(a[i]) < Ord(b[i])

StrLess(a, b) == StrLessFrom(a, b, 1)

\* Truthiness of a field: neither None nor the empty string.
Truthy(t) == t # None /\ t # <<>>

\* int(t) succeeds: an optional sign and at least one digit.  None raises
\* TypeError, any other text ValueError; both are caught by the callers.
IntCoercible(t) ==
    /\ t # None
    /\ LET body == IF t # <<>> /\ Head(t) \in {"+", "-"} THEN Tail(t) ELSE t
       IN  /\ Len(body) >= 1
           /\ \A i \in 1..Len(body) : IsDigit(body[i])

RECURSIVE DigitsValue(_, _)
DigitsValue(body, acc) ==
    IF body = <<>> THEN acc
    ELSE DigitsValue(Tail(body), 10 * acc + DigitVal(Head(body)))

\* int(t) of a coercible text.
ParseInt(t) ==
    IF Head(t) = "-" THEN 0 - DigitsValue(Tail(t), 0)
    ELSE IF Head(t) = "+" THEN DigitsValue(Tail(t), 0)
    ELSE DigitsValue(t, 0)

RECURSIVE FormatNat(_)
FormatNat(n) ==
    IF n < 10 THEN <<Digits[n + 1]>>
    ELSE Append(FormatNat(n \div 10), Digits[(n % 10) + 1])

\* str(n) of an integer, as csv.writer writes a level.
FormatInt(n) == IF n < 0 THEN <<"-">> \o FormatNat(0 - n) ELSE FormatNat(n)

\* date.isoformat() of day d of a month: the day, zero-padded to two digits,
\* so that text order is calendar order.  The year and the month, which every
\* date of the model shares, are left out.
IsoFormat(d) == <<Digits[(d \div 10) + 1], Digits[(d % 10) + 1]>>

\* sorted(S) of a set of texts: each text is put behind the texts smaller
\* than it.
InsertText(sorted, x) ==
    LET k == Cardinality({i \in 1..Len(sorted) : StrLess(sorted[i], x)})
    IN  SubSeq(sorted, 1, k) \o <<x>> \o SubSeq(sorted, k + 1, Len(sorted))

RECURSIVE SortedTexts(_)
SortedTexts(S) ==
    IF S = {} THEN <<>>
    ELSE LET x == CHOOSE y \in S : TRUE
         IN  InsertText(SortedTexts(S \ {x}), x)

\* s[start:] and s[:stop] with Python's treatment of negative and
\* out-of-range indices.
PySliceFrom(s, start) ==
    LET L == Len(s)
        b == IF start < 0 THEN (IF L + start > 0 THEN L + start ELSE 0)
             ELSE (IF start < L THEN start ELSE L)
    IN  SubSeq(s, b + 1, L)

PySliceTo(s, stop) ==
    LET L == Len(s)
        e == IF stop < 0 THEN (IF L + stop > 0 THEN L + stop ELSE 0)
             ELSE (IF stop < L THEN stop ELSE L)
    IN  SubSeq(s, 1, e)

Reversed(s) == [i \in 1..Len(s) |-> s[Len(s) + 1 - i]]

Range(s) == {s[i] : i \in 1..Len(s)}

\* --------------------------------------------------------------- the CSV
KDate == <<"d", "a", "t", "e">>
KName == <<"n", "a", "m", "e">>
KLevel == <<"l", "e", "v", "e", "l">>

HeaderRecord == <<KDate, KName, KLevel>>

\* One row of csv.DictReader, dict(zip(fieldnames, record)): the field names
\* mapped to the record's fields, None where the record is too short.
RECURSIVE RowFrom(_, _, _)
RowFrom(fieldnames, rec, i) ==
    IF i > Len(fieldnames) THEN <<>>
    ELSE RowFrom(fieldnames, rec, i + 1)
            @@ (fieldnames[i] :> (IF i <= Len(rec) THEN rec[i] ELSE None))

RowDict(fieldnames, rec) == RowFrom(fieldnames, rec, 1)

\* row.get(key)
Get(row, key) == IF key \in DOMAIN row THEN row[key] ELSE None

\* list(reader): the first record names the fields, every later record is a
\* row.
RECURSIVE ReadFrom(_, _)
ReadFrom(lines, i) ==
    IF i > Len(lines) THEN <<>>
    ELSE <<RowDict(lines[1], lines[i])>> \o ReadFrom(lines, i + 1)

\* _load_csv_rows on a readable medium: no file gives no rows.
LoadCsvRows(exists, lines) ==
    IF ~exists \/ lines = <<>> THEN <<>> ELSE ReadFrom(lines, 2)

\* ------------------------------------------------------------ the analyses
\* A lookup in which the first row of a key stays.
DictSetKeepFirst(acc, key, val) == acc @@ (key :> val)

\* levels_by_key[(d, name)] = lvl
DictSet(acc, key, val) == (key :> val) @@ acc

\* A lookup that takes 0 for a level it cannot read.
CoercedLevelDefaultZero(row) ==
    IF KLevel \in DOMAIN row /\ IntCoercible(row[KLevel])
    THEN <<ParseInt(row[KLevel])>>
    ELSE <<0>>

\* The try block of _build_levels_by_key: <<int(row["level"])>>, or <<>> when
\* the key is missing or int() raises.
CoercedLevel(row) ==
    IF KLevel \in DOMAIN row /\ IntCoercible(row[KLevel])
    THEN <<ParseInt(row[KLevel])>>
    ELSE <<>>

\* One turn of the loop of _build_levels_by_key: the three continue
\* statements, then the assignment.
BuildStep(acc, window_dates_set, d, lvl, name) ==
    IF d \notin window_dates_set THEN acc
    ELSE IF lvl = <<>> THEN acc
    ELSE IF ~Truthy(name) THEN acc
    ELSE DictSet(acc, <<d, name>>, lvl[1])

RECURSIVE BuildFrom(_, _, _, _)
BuildFrom(rows, window_dates_set, i, acc) ==
    IF i > Len(rows) THEN acc
    ELSE BuildFrom(rows, window_dates_set, i + 1,
                   BuildStep(acc, window_dates_set, Get(rows[i], KDate),
                             CoercedLevel(rows[i]), Get(rows[i], KName)))

BuildLevelsByKey(rows, window_dates) ==
    BuildFrom(rows, Range(window_dates), 1, <<>>)

\* levels_by_key.get((d, name)): <<lvl>>, or <<>> for None.
LookupGet(levels_by_key, d, name) ==
    IF <<d, name>> \in DOMAIN levels_by_key THEN <<levels_by_key[<<d, name>>]>> ELSE <<>>

\* any(lvl is None for lvl in levels_for_player)
AnyNone(levels_for_player) ==
    \E i \in 1..Len(levels_for_player) : levels_for_player[i] = <<>>

\* [levels_by_key.get((d, name)) for d in window_dates]
LevelsForPlayer(levels_by_key, window_dates, name) ==
    [i \in 1..Len(window_dates) |-> LookupGet(levels_by_key, window_dates[i], name)]

\* What the generator yields for one player: nothing, or the name with its
\* levels.
YieldOne(name, levels_for_player) ==
    IF AnyNone(levels_for_player) THEN <<>>
    ELSE <<[name |-> name,
            levels |-> [i \in 1..Len(levels_for_player) |-> levels_for_player[i][1]]]>>

RECURSIVE YieldPlayers(_, _, _)
YieldPlayers(players, levels_by_key, window_dates) ==
    IF players = <<>> THEN <<>>
    ELSE YieldOne(Head(players), LevelsForPlayer(levels_by_key, window_dates, Head(players)))
            \o YieldPlayers(Tail(players), levels_by_key, window_dates)

PlayersWithFullWindow(levels_by_key, window_dates) ==
    YieldPlayers(SortedTexts({k[2] : k \in DOMAIN levels_by_key}),
                 levels_by_key, window_dates)

\* sorted({row["date"] for row in rows if row.get("date")})
DistinctDates(rows) ==
    SortedTexts({rows[i][KDate] : i \in {j \in 1..Len(rows) : Truthy(Get(rows[j], KDate))}})

\* list.insert(k, x)
InsertAt(s, x, k) == SubSeq(s, 1, k) \o <<x>> \o SubSeq(s, k + 1, Len(s))

\* sorted(s, key=lambda r: r[field]): stable, so an element goes behind every
\* earlier element whose key is not larger.
InsertStable(sorted, x, field) ==
    InsertAt(sorted, x,
             Cardinality({i \in 1..Len(sorted) : sorted[i][field] <= x[field]}))

RECURSIVE SortedFrom(_, _, _, _)
SortedFrom(s, field, i, acc) ==
    IF i > Len(s) THEN acc
    ELSE SortedFrom(s, field, i + 1, InsertStable(acc, s[i], field))

SortedBy(s, field) == SortedFrom(s, field, 1, <<>>)

MinTrendDates == 2
ProjectionDays == 7

\* A window cut from the front: dates[:n_days].
TrendWindowHead(dates, n_days) == PySliceTo(dates, n_days)

\* dates[-n_days:]
TrendWindow(dates, n_days) == PySliceFrom(dates, 0 - n_days)

\* The difference taken the wrong way round.
DeltaReversed(oldest_level, newest_level) == oldest_level - newest_level

\* delta = newest_level - oldest_level
Delta(oldest_level, newest_level) == newest_level - oldest_level

\* One entry of changes.
TrendRecord(p) ==
    [name |-> p.name, from |-> p.levels[1], to |-> p.levels[Len(p.levels)],
     delta |-> Delta(p.levels[1], p.levels[Len(p.levels)])]

\* changes_sorted[:top_n] and list(reversed(changes_sorted))[:top_n]
WorstOf(changes_sorted, top_n) == PySliceTo(changes_sorted, top_n)

BestOf(changes_sorted, top_n) == PySliceTo(Reversed(changes_sorted), top_n)

NoResult(report) ==
    [report |-> report, window_dates |-> <<>>, levels_by_key |-> <<>>,
     yielded |-> <<>>, changes |-> <<>>, worst |-> <<>>, best |-> <<>>,
     projections |-> <<>>]

\* analyze_last_n_days from "if not changes" on: the two ranked tables.
TrendTables(wd, lbk, players, ch, changes_sorted, top_n) ==
    [report |-> IF ch = <<>> THEN "no-complete-players" ELSE "tables",
     window_dates |-> wd, levels_by_key |-> lbk, yielded |-> players,
     changes |-> ch,
     worst |-> IF ch = <<>> THEN <<>> ELSE WorstOf(changes_sorted, top_n),
     best |-> IF ch = <<>> THEN <<>> ELSE BestOf(changes_sorted, top_n),
     projections |-> <<>>]

\* The loop of analyze_last_n_days that fills changes, and the sort.
TrendOfPlayers(wd, lbk, players, top_n) ==
    TrendTables(wd, lbk, players,
                [i \in 1..Len(players) |-> TrendRecord(players[i])],
                SortedBy([i \in 1..Len(players) |-> TrendRecord(players[i])], "delta"),
                top_n)

\* analyze_last_n_days from the lookup on.
TrendOfLookup(wd, lbk, top_n) ==
    TrendOfPlayers(wd, lbk, PlayersWithFullWindow(lbk, wd), top_n)

\* analyze_last_n_days from the sorted distinct dates on.
AnalyzeDates(rows, dates, n_days, top_n) ==
    IF Len(dates) < MinTrendDates THEN NoResult("too-few-dates")
    ELSE TrendOfLookup(TrendWindow(dates, n_days),
                       BuildLevelsByKey(rows, TrendWindow(dates, n_days)), top_n)

\* analyze_last_n_days once the rows are read.
AnalyzeRows(exists, rows, n_days, top_n) ==
    IF rows = <<>> THEN NoResult(IF exists THEN "csv-empty" ELSE "no-csv")
    ELSE AnalyzeDates(rows, DistinctDates(rows), n_days, top_n)

\* A projection that goes back instead of forward.
ProjectedBack(newest_level, delta) == newest_level - delta

\* projected_level = newest_level + delta
Projected(newest_level, delta) == newest_level + delta

\* One entry of projections.
ProjectionRecord(p) ==
    [name |-> p.name, from |-> p.levels[1], current |-> p.levels[Len(p.levels)],
     delta |-> p.levels[Len(p.levels)] - p.levels[1],
     projected |-> Projected(p.levels[Len(p.levels)],
                             p.levels[Len(p.levels)] - p.levels[1])]

\* worst = projections_sorted[:top_n]
LowestOf(projections_sorted, top_n) == PySliceTo(projections_sorted, top_n)

\* project_levels_next_7_days from "if not projections" on.
ProjectionTable(wd, lbk, players, pr, top_n) ==
    [report |-> IF pr = <<>> THEN "no-complete-players" ELSE "tables",
     window_dates |-> wd, levels_by_key |-> lbk, yielded |-> players,
     changes |-> <<>>,
     worst |-> IF pr = <<>> THEN <<>> ELSE LowestOf(SortedBy(pr, "projected"), top_n),
     best |-> <<>>,
     projections |-> pr]

\* The loop of project_levels_next_7_days that fills projections.
ProjectionOfPlayers(wd, lbk, players, top_n) ==
    ProjectionTable(wd, lbk, players,
                    [i \in 1..Len(players) |-> ProjectionRecord(players[i])], top_n)

\* project_levels_next_7_days from the lookup on.
ProjectionOfLookup(wd, lbk, top_n) ==
    ProjectionOfPlayers(wd, lbk, PlayersWithFullWindow(lbk, wd), top_n)

\* window_dates = dates[-7:]
ProjectionWindow(dates) == PySliceFrom(dates, 0 - ProjectionDays)

\* project_levels_next_7_days from the sorted distinct dates on.
ProjectDates(rows, dates, top_n) ==
    IF Len(dates) < ProjectionDays THEN NoResult("too-few-dates")
    ELSE ProjectionOfLookup(ProjectionWindow(dates),
                            BuildLevelsByKey(rows, ProjectionWindow(dates)), top_n)

\* project_levels_next_7_days once the rows are read.
ProjectRows(exists, rows, top_n) ==
    IF rows = <<>> THEN NoResult(IF exists THEN "csv-empty" ELSE "no-csv")
    ELSE ProjectDates(rows, DistinctDates(rows), top_n)

\* --------------------------------------------------------- the acquisition
NameA == <<"A">>
NameAB == <<"A", "B">>
NameB == <<"B">>

\* JSON values of the fetcher's output: null, a number, a string.
JNull == [t |-> "null", n |-> 0, s |-> <<>>]
JNum(n) == [t |-> "num", n |-> n, s |-> <<>>]
JStr(s) == [t |-> "str", n |-> 0, s |-> s]

Item(name, level) == [name |-> name, level |-> level]

\* What running the fetcher can give: no binary, a non-zero exit, output that
\* is not JSON, JSON that is no array of objects, or an array of objects.
Process(exists, returncode, json, items) ==
    [exists |-> exists, returncode |-> returncode, json |-> json, items |-> items]

Acquisitions ==
    { Process(FALSE, 0, "array", <<>>),
      Process(TRUE, 1, "array", <<>>),
      Process(TRUE, 0, "invalid", <<>>),
      Process(TRUE, 0, "scalar", <<>>),
      Process(TRUE, 0, "array", <<>>),
      Process(TRUE, 0, "array", <<Item(JStr(NameA), JNum(12))>>),
      Process(TRUE, 0, "array", <<Item(JNull, JNum(3)), Item(JStr(NameA), JStr(<<"7">>))>>),
      Process(TRUE, 0, "array", <<Item(JStr(NameB), JNum(12)), Item(JStr(NameA), JStr(<<"x">>)),
                                  Item(JStr(NameA), JNum(9))>>),
      Process(TRUE, 0, "array", <<Item(JStr(NameA), JNull), Item(JStr(<<>>), JNum(5))>>) }

\* int(level) of a JSON value: <<n>>, or <<>> when it raises.
IntOfJson(v) ==
    IF v.t = "num" THEN <<v.n>>
    ELSE IF v.t = "str" /\ IntCoercible(v.s) THEN <<ParseInt(v.s)>>
    ELSE <<>>

RECURSIVE KeepItems(_)
KeepItems(data) ==
    IF data = <<>> THEN <<>>
    ELSE LET item == Head(data) IN
         IF item.name.t = "null" \/ item.level.t = "null" \/ IntOfJson(item.level) = <<>>
         THEN KeepItems(Tail(data))
         ELSE <<[name |-> item.name.s, level |-> IntOfJson(item.level)[1]]>>
              \o KeepItems(Tail(data))

\* fetch_levels: the exception it raises ("none" when it returns) and the
\* levels it returns.
FetchLevels(proc) ==
    IF ~proc.exists THEN [raised |-> "FileNotFoundError", levels |-> <<>>]
    ELSE IF proc.returncode # 0 THEN [raised |-> "RuntimeError", levels |-> <<>>]
    ELSE IF proc.json = "invalid" THEN [raised |-> "ValueError", levels |-> <<>>]
    ELSE IF proc.json # "array" THEN [raised |-> "TypeError", levels |-> <<>>]
    ELSE [raised |-> "none", levels |-> KeepItems(proc.items)]

\* -------------------------------------------------------------- the ledger
\* An append that writes the header every time.
HeaderLinesAlways(exists) == <<HeaderRecord>>

\* writer.writerow(["date", "name", "level"]) when the file did not exist.
HeaderLines(exists) == IF ~exists THEN <<HeaderRecord>> ELSE <<>>

\* The records append_today writes for a non-empty list of levels.
WrittenLines(exists, day, lv) ==
    HeaderLines(exists)
        \o [i \in 1..Len(lv) |-> <<IsoFormat(day), lv[i].name, FormatInt(lv[i].level)>>]

\* ------------------------------------------------------------------ state
VARIABLES
    file_exists,    \* CSV_PATH.exists()
    file_lines,     \* the records of the CSV file, the header included
    unreadable,     \* the medium refuses to open the file for reading
    today,          \* date.today(), as a day of the month
    runs,           \* runs of main() started so far
    pc,             \* where main() stands; "lib" and "called" when an analysis
                    \* is called on its own
    levels,         \* main's local: what fetch_levels returned
    raised,         \* the exception main caught from fetch_levels, or "none"
    diag,           \* main printed its diagnostic
    escaped,        \* an exception left main()
    start_exists,   \* history: file_exists when the run began
    start_lines,    \* history: file_lines when the run began
    ran,            \* history: the steps main called after fetch_levels
    appended,       \* history: every observation append_today was given
    call,           \* the analysis called last and its arguments
    report,         \* the branch the analysis ended in
    window_dates,   \* the analysis' locals and lists
    levels_by_key,
    yielded,        \* what _players_with_full_window yielded
    changes,
    worst,
    best,
    projections

vars ==
    <<file_exists, file_lines, unreadable, today, runs, pc, levels, raised, diag,
      escaped, start_exists, start_lines, ran, appended, call, report,
      window_dates, levels_by_key, yielded, changes, worst, best, projections>>

fileVars == <<file_exists, file_lines, appended>>
runVars == <<levels, raised, diag, escaped, start_exists, start_lines, ran>>
resultVars ==
    <<call, report, window_dates, levels_by_key, yielded, changes, worst, best,
      projections>>

NoCall == [fn |-> "none", n_days |-> 0, top_n |-> 0]

SetResult(c, r) ==
    /\ call' = c
    /\ report' = r.report
    /\ window_dates' = r.window_dates
    /\ levels_by_key' = r.levels_by_key
    /\ yielded' = r.yielded
    /\ changes' = r.changes
    /\ worst' = r.worst
    /\ best' = r.best
    /\ projections' = r.projections

\* ----------------------------------------------------------------- main()
Init ==
    /\ file_exists = FALSE
    /\ file_lines = <<>>
    /\ unreadable = FALSE
    /\ today = 1
    /\ runs = 0
    /\ pc = "idle"
    /\ levels = <<>>
    /\ raised = "none"
    /\ diag = FALSE
    /\ escaped = FALSE
    /\ start_exists = FALSE
    /\ start_lines = <<>>
    /\ ran = {}
    /\ appended = <<>>
    /\ call = NoCall
    /\ report = "none"
    /\ window_dates = <<>>
    /\ levels_by_key = <<>>
    /\ yielded = <<>>
    /\ changes = <<>>
    /\ worst = <<>>
    /\ best = <<>>
    /\ projections = <<>>

\* The calendar moves on between two runs.
Tick ==
    /\ pc \in {"idle", "done"}
    /\ today < MaxDay
    /\ today' = today + 1
    /\ UNCHANGED <<file_exists, file_lines, unreadable, runs, pc, levels, raised, diag,
                   escaped, start_exists, start_lines, ran, appended, resultVars>>

\* The script is started; a file that is there can be read, or it cannot
\* (its permissions, its bytes).
StartRun ==
    /\ pc \in {"idle", "done"}
    /\ runs < MaxRuns
    /\ runs' = runs + 1
    /\ pc' = "fetch"
    /\ unreadable' \in (IF file_exists THEN BOOLEAN ELSE {FALSE})
    /\ levels' = <<>>
    /\ raised' = "none"
    /\ diag' = FALSE
    /\ escaped' = FALSE
    /\ start_exists' = file_exists
    /\ start_lines' = file_lines
    /\ ran' = {}
    /\ SetResult(NoCall, NoResult("none"))
    /\ UNCHANGED <<fileVars, today>>

\* A main whose except block lacks the return.
AfterFetchErrorFallsThrough == "append"

\* Where main goes when fetch_levels raised: it prints and returns.
AfterFetchError == "done"

\* try: levels = fetch_levels() / except Exception: print, return
Main_Fetch ==
    /\ pc = "fetch"
    /\ \E proc \in Acquisitions :
          LET r == FetchLevels(proc) IN
          IF r.raised # "none"
          THEN /\ raised' = r.raised
               /\ diag' = TRUE
               /\ levels' = levels
               /\ pc' = AfterFetchError
          ELSE /\ raised' = "none"
               /\ diag' = diag
               /\ levels' = r.levels
               /\ pc' = "append"
    /\ UNCHANGED <<fileVars, unreadable, today, runs, escaped, start_exists,
                   start_lines, ran, resultVars>>

\* append_today(levels)
Main_Append ==
    /\ pc = "append"
    /\ ran' = ran \cup {"append_today"}
    /\ IF levels = <<>>
       THEN UNCHANGED fileVars
       ELSE /\ file_exists' = TRUE
            /\ file_lines' = file_lines \o WrittenLines(file_exists, today, levels)
            /\ appended' = appended \o
                   [i \in 1..Len(levels) |->
                       [day |-> today, name |-> levels[i].name, level |-> levels[i].level]]
    /\ pc' = "trend3"
    /\ UNCHANGED <<unreadable, today, runs, levels, raised, diag, escaped,
                   start_exists, start_lines, resultVars>>

\* One analysis called by main: _load_csv_rows raises when the file is there
\* but cannot be read, and nothing in main catches it.
AnalysisStep(at, fn, n_days, top_n, next) ==
    /\ pc = at
    /\ ran' = ran \cup {at}
    /\ IF file_exists /\ unreadable
       THEN /\ escaped' = TRUE
            /\ pc' = "done"
            /\ UNCHANGED resultVars
       ELSE /\ escaped' = escaped
            /\ pc' = next
            /\ LET rows == LoadCsvRows(file_exists, file_lines) IN
               SetResult([fn |-> fn, n_days |-> n_days, top_n |-> top_n],
                         IF fn = "analyze_last_n_days"
                         THEN AnalyzeRows(file_exists, rows, n_days, top_n)
                         ELSE ProjectRows(file_exists, rows, top_n))
    /\ UNCHANGED <<fileVars, unreadable, today, runs, levels, raised, diag,
                   start_exists, start_lines>>

\* analyze_last_n_days(n_days=3, top_n=10)
Main_Trend3 == AnalysisStep("trend3", "analyze_last_n_days", 3, 10, "trend7")

\* analyze_last_n_days(n_days=7, top_n=10)
Main_Trend7 == AnalysisStep("trend7", "analyze_last_n_days", 7, 10, "project")

\* project_levels_next_7_days(top_n=10)
Main_Project == AnalysisStep("project", "project_levels_next_7_days", 7, 10, "done")

Next ==
    \/ Tick
    \/ StartRun
    \/ Main_Fetch
    \/ Main_Append
    \/ Main_Trend3
    \/ Main_Trend7
    \/ Main_Project

Spec == Init /\ [][Next]_vars

\* ------------------------------------------- the analyses called on a ledger
\* The ledgers the analyses are applied to: 0..MaxDates days on which the
\* three members A, AB, B were recorded, each member's level moving by its
\* own rate per day (B's by 1), with at most one irregular cell, as a file
\* written by hand or by an interrupted run can hold it:
\*    absent    the member has no row that day
\*    bad       the level is no number
\*    short     the record ends after the name
\*    anon      the name is empty
\*    undated   the date is empty
\*    late      a second row for that (date, name), appended at the end of the
\*              file, with another level (written with a sign)
\*    latebad   a second row, appended at the end, whose level is no number
GridNames == <<NameA, NameAB, NameB>>

Rates == {0, 1}

RateVectors == {<<a, b, 1>> : a \in Rates, b \in Rates}

Kinds == {"absent", "bad", "short", "anon", "undated", "late", "latebad"}

Regular == [kind |-> "none", who |-> 1, day |-> 0]

Irregularities(nd) ==
    {Regular} \cup [kind : Kinds, who : 1..Len(GridNames), day : 1..nd]

GridLevel(rate, d) == 10 + rate * d

Cell(d, k, rates, irr) ==
    LET date == IsoFormat(d)
        name == GridNames[k]
        level == FormatInt(GridLevel(rates[k], d))
    IN  IF irr.who # k \/ irr.day # d THEN <<date, name, level>>
        ELSE IF irr.kind = "absent" THEN <<>>
        ELSE IF irr.kind = "bad" THEN <<date, name, <<"x">>>>
        ELSE IF irr.kind = "short" THEN <<date, name>>
        ELSE IF irr.kind = "anon" THEN <<date, <<>>, level>>
        ELSE IF irr.kind = "undated" THEN <<<<>>, name, level>>
        ELSE <<date, name, level>>

LateLines(rates, irr) ==
    IF irr.kind = "late"
    THEN <<<<IsoFormat(irr.day), GridNames[irr.who],
             <<"+">> \o FormatInt(GridLevel(rates[irr.who], irr.day) + 5)>>>>
    ELSE IF irr.kind = "latebad"
    THEN <<<<IsoFormat(irr.day), GridNames[irr.who], <<"x">>>>>>
    ELSE <<>>

IsRecord(rec) == rec # <<>>

LedgerLines(nd, rates, irr) ==
    LET n == Len(GridNames)
        cells == [j \in 1..(n * nd) |->
                     Cell(((j - 1) \div n) + 1, ((j - 1) % n) + 1, rates, irr)]
    IN  <<HeaderRecord>> \o SelectSeq(cells, IsRecord) \o LateLines(rates, irr)

NDaysArgs == {-2, 0, 1, 3, 7}

TopNArgs == {2, 10}

InitAnalysis ==
    /\ file_exists = TRUE
    /\ \E nd \in 0..MaxDates :
          \E rates \in RateVectors :
             \E irr \in Irregularities(nd) :
                file_lines = LedgerLines(nd, rates, irr)
    /\ unreadable = FALSE
    /\ today = 1
    /\ runs = 0
    /\ pc = "lib"
    /\ levels = <<>>
    /\ raised = "none"
    /\ diag = FALSE
    /\ escaped = FALSE
    /\ start_exists = FALSE
    /\ start_lines = <<>>
    /\ ran = {}
    /\ appended = <<>>
    /\ call = NoCall
    /\ report = "none"
    /\ window_dates = <<>>
    /\ levels_by_key = <<>>
    /\ yielded = <<>>
    /\ changes = <<>>
    /\ worst = <<>>
    /\ best = <<>>
    /\ projections = <<>>

\* analyze_last_n_days(n_days, top_n)
CallAnalyze ==
    /\ pc = "lib"
    /\ pc' = "called"
    /\ \E n_days \in NDaysArgs :
          \E top_n \in TopNArgs :
             SetResult([fn |-> "analyze_last_n_days", n_days |-> n_days, top_n |-> top_n],
                       AnalyzeRows(file_exists, LoadCsvRows(file_exists, file_lines),
                                   n_days, top_n))
    /\ UNCHANGED <<fileVars, unreadable, today, runs, runVars>>

\* project_levels_next_7_days(top_n)
CallProject ==
    /\ pc = "lib"
    /\ pc' = "called"
    /\ \E top_n \in TopNArgs :
          SetResult([fn |-> "project_levels_next_7_days", n_days |-> ProjectionDays,
                     top_n |-> top_n],
                    ProjectRows(file_exists, LoadCsvRows(file_exists, file_lines), top_n))
    /\ UNCHANGED <<fileVars, unreadable, today, runs, runVars>>

NextAnalysis ==
    \/ CallAnalyze
    \/ CallProject

SpecAnalysis == InitAnalysis /\ [][NextAnalysis]_vars

\* ------------------------------------------------------------ properties
\* The ledger as the analyses read it.
Ledger == LoadCsvRows(file_exists, file_lines)

\* The rows of the ledger for a (date, name) pair, and those among them whose
\* level is integer-coercible.
RowsFor(rows, d, name) ==
    {i \in 1..Len(rows) : Get(rows[i], KDate) = d /\ Get(rows[i], KName) = name}

CoercibleRowsFor(rows, d, name) ==
    {i \in RowsFor(rows, d, name) : IntCoercible(Get(rows[i], KLevel))}

Latest(S) == CHOOSE i \in S : \A j \in S : j <= i

Earliest(S) == CHOOSE i \in S : \A j \in S : i <= j

LevelOfRow(rows, i) == ParseInt(Get(rows[i], KLevel))

\* The level recorded for (d, name): that of the latest coercible row.
RecordedLevel(rows, d, name) == LevelOfRow(rows, Latest(CoercibleRowsFor(rows, d, name)))

\* The distinct dates of the ledger, and the entity names (non-empty strings).
LedgerDates(rows) == {Get(rows[i], KDate) : i \in 1..Len(rows)} \ {<<>>, None}

EntityNames(rows) ==
    ({Get(rows[i], KName) : i \in 1..Len(rows)} \cup Range(GridNames)) \ {<<>>, None}

HasLevelOnEvery(rows, wd, name) ==
    \A d \in Range(wd) : CoercibleRowsFor(rows, d, name) # {}

\* An entity is complete in a window that has dates and on each of whose
\* dates a level is recorded for it.
Complete(rows, wd, name) == wd # <<>> /\ HasLevelOnEvery(rows, wd, name)

NamesOf(list) == {list[i].name : i \in 1..Len(list)}

DistinctNames(list) ==
    \A i \in 1..Len(list) : \A j \in 1..Len(list) : i < j => list[i].name # list[j].name

Increasing(wd) == \A i \in 1..Len(wd) : \A j \in 1..Len(wd) : i < j => StrLess(wd[i], wd[j])

\* wd holds the latest k of the dates.
IsSuffixOf(wd, dates, k) ==
    /\ Len(wd) = k
    /\ Increasing(wd)
    /\ Range(wd) \subseteq dates
    /\ \A d \in dates \ Range(wd) : \A w \in Range(wd) : StrLess(d, w)

Min(a, b) == IF a < b THEN a ELSE b

Analyzed == call.fn = "analyze_last_n_days"
ProjectedCall == call.fn = "project_levels_next_7_days"
FilterRan == report \in {"tables", "no-complete-players"}

\* C1: in the trend analysis (here for every size >= 1), two entities with
\* equal delta stand in ascending name order in the worst list and in the best
\* list.
TieOrdered(list) ==
    \A i \in 1..Len(list) : \A j \in 1..Len(list) :
        (i < j /\ list[i].delta = list[j].delta) => StrLess(list[i].name, list[j].name)

C1_TieOrderBothLists ==
    (Analyzed /\ call.n_days >= 1) => (TieOrdered(worst) /\ TieOrdered(best))

\* C2: no exception leaves main(), whichever step raises it, and an
\* acquisition error is reported.
C2_AllCaught == ~escaped /\ (raised # "none" => diag)

\* C3: once the acquisition has failed, the run is over, append_today and the
\* analyses were not called, and the ledger is as it was when the run began.
C3_FailedFetchLeavesLedger ==
    raised # "none" =>
        /\ pc = "done"
        /\ ran = {}
        /\ file_exists = start_exists
        /\ file_lines = start_lines

C3_Witness == raised = "ValueError" /\ file_exists /\ Len(file_lines) > 2 /\ pc = "done"

\* C4 as stated: for every window, an entity name is yielded iff the ledger
\* holds a coercible level for it on every date of the window.
YieldedIff(rows) ==
    \A name \in EntityNames(rows) :
        name \in NamesOf(yielded) <=> HasLevelOnEvery(rows, window_dates, name)

C4_CompletenessAnyWindow == FilterRan => YieldedIff(Ledger)

\* C4, amended: for every window that has at least one date, an entity name
\* is yielded iff the ledger holds a coercible level for it on every date of
\* the window; each name is yielded once, with one level per window date, the
\* k-th being a level recorded for the k-th date.
YieldedLevels(rows) ==
    \A i \in 1..Len(yielded) :
        /\ yielded[i].name \in EntityNames(rows)
        /\ Len(yielded[i].levels) = Len(window_dates)
        /\ \A k \in 1..Len(window_dates) :
              \E j \in CoercibleRowsFor(rows, window_dates[k], yielded[i].name) :
                  yielded[i].levels[k] = LevelOfRow(rows, j)

C4_Completeness ==
    (FilterRan /\ window_dates # <<>>) =>
        (YieldedIff(Ledger) /\ YieldedLevels(Ledger) /\ DistinctNames(yielded))

SomeIncomplete(rows) ==
    \E name \in EntityNames(rows) :
        /\ name \notin NamesOf(yielded)
        /\ \E d \in Range(window_dates) : RowsFor(rows, d, name) # {}

C4_Witness ==
    FilterRan /\ Len(window_dates) >= 3 /\ yielded # <<>> /\ SomeIncomplete(Ledger)

\* C5: reading the ledger returns every observation ever appended, in append
\* order, with its date, name and level; an append of a non-empty list makes
\* the rows read grow by the list, tagged with today's date, behind the
\* unchanged earlier rows; an append of an empty list changes nothing and
\* creates no file.
ReadsAllAppended(rows) ==
    /\ Len(rows) = Len(appended)
    /\ \A i \in 1..Len(rows) :
          /\ Get(rows[i], KDate) = IsoFormat(appended[i].day)
          /\ Get(rows[i], KName) = appended[i].name
          /\ IntCoercible(Get(rows[i], KLevel))
          /\ LevelOfRow(rows, i) = appended[i].level

GrowsBy(old, new, lv, day) ==
    /\ Len(new) = Len(old) + Len(lv)
    /\ SubSeq(new, 1, Len(old)) = old
    /\ \A i \in 1..Len(lv) :
          /\ Get(new[Len(old) + i], KDate) = IsoFormat(day)
          /\ Get(new[Len(old) + i], KName) = lv[i].name
          /\ IntCoercible(Get(new[Len(old) + i], KLevel))
          /\ LevelOfRow(new, Len(old) + i) = lv[i].level

AppendGrows ==
    pc = "append" =>
        IF levels = <<>>
        THEN file_exists' = file_exists /\ file_lines' = file_lines
        ELSE GrowsBy(Ledger, LoadCsvRows(file_exists', file_lines'), levels, today)

C5_AppendOnly == [](ReadsAllAppended(Ledger)) /\ [][AppendGrows]_vars

C5_Witness ==
    /\ pc = "done"
    /\ Len(appended) >= 3
    /\ appended[1].day # appended[Len(appended)].day
    /\ Len(levels) >= 2

\* C6: with at least 2 distinct dates and a size >= 1, the trend window is the
\* last min(size, number of distinct dates) of the distinct dates in ascending
\* order: at most size dates, strictly increasing.
WindowIsTail(rows) ==
    (Analyzed /\ call.n_days >= 1 /\ Cardinality(LedgerDates(rows)) >= 2) =>
        /\ IsSuffixOf(window_dates, LedgerDates(rows),
                      Min(call.n_days, Cardinality(LedgerDates(rows))))
        /\ Len(window_dates) <= call.n_days

C6_WindowIsTail == WindowIsTail(Ledger)

C6_Witness ==
    /\ Analyzed
    /\ call.n_days = 3
    /\ Len(window_dates) = 3
    /\ Cardinality(LedgerDates(Ledger)) > 3

\* C7: with fewer than 2 distinct dates the trend analysis produces no
\* records; otherwise one record per complete entity of the window, with from
\* the level on the first window date, to the level on the last, and
\* delta = to - from.
TrendRecordsOf(rows) ==
    IF Cardinality(LedgerDates(rows)) < 2
    THEN changes = <<>> /\ worst = <<>> /\ best = <<>> /\ ~FilterRan
    ELSE /\ DistinctNames(changes)
         /\ \A name \in EntityNames(rows) :
               name \in NamesOf(changes) <=> Complete(rows, window_dates, name)
         /\ \A i \in 1..Len(changes) :
               /\ changes[i].from = RecordedLevel(rows, window_dates[1], changes[i].name)
               /\ changes[i].to =
                      RecordedLevel(rows, window_dates[Len(window_dates)], changes[i].name)
               /\ changes[i].delta = changes[i].to - changes[i].from

C7_TrendRecords == Analyzed => TrendRecordsOf(Ledger)

C7_Witness ==
    /\ Analyzed
    /\ Len(changes) >= 2
    /\ \E i \in 1..Len(changes) : changes[i].delta < 0
    /\ \E i \in 1..Len(changes) : changes[i].delta > 0

\* C8: with fewer than 7 distinct dates the projection produces no records;
\* otherwise, over the trailing 7 distinct dates, every complete entity gets
\* current = level on the last window date, delta = current - level on the
\* first window date, projected = current + delta, and the reported list is
\* the first top_n of the records in ascending order of projected.
LowestFirst(list, all, top_n) ==
    /\ Len(list) = Min(top_n, Len(all))
    /\ Range(list) \subseteq Range(all)
    /\ DistinctNames(list)
    /\ \A i \in 1..Len(list) : \A j \in 1..Len(list) :
          i < j => list[i].projected <= list[j].projected
    /\ \A r \in Range(all) \ Range(list) :
          \A i \in 1..Len(list) : list[i].projected <= r.projected

ProjectionRecordsOf(rows) ==
    IF Cardinality(LedgerDates(rows)) < ProjectionDays
    THEN projections = <<>> /\ worst = <<>> /\ ~FilterRan
    ELSE /\ IsSuffixOf(window_dates, LedgerDates(rows), ProjectionDays)
         /\ DistinctNames(projections)
         /\ \A name \in EntityNames(rows) :
               name \in NamesOf(projections) <=> Complete(rows, window_dates, name)
         /\ \A i \in 1..Len(projections) :
               /\ projections[i].current =
                      RecordedLevel(rows, window_dates[Len(window_dates)], projections[i].name)
               /\ projections[i].delta =
                      projections[i].current
                          - RecordedLevel(rows, window_dates[1], projections[i].name)
               /\ projections[i].projected = projections[i].current + projections[i].delta
         /\ LowestFirst(worst, projections, call.top_n)

C8_Projection == ProjectedCall => ProjectionRecordsOf(Ledger)

C8_Witness ==
    /\ ProjectedCall
    /\ Len(projections) = 3
    /\ Len(worst) = 2
    /\ worst[1].projected < worst[2].projected
    /\ \E i \in 1..3 : projections[i].delta < 0

\* C9 as stated: for a (date, name) pair of the window with several rows, the
\* lookup holds the level of the latest-appended of those rows.
LatestRowWins(rows) ==
    \A d \in Range(window_dates) : \A name \in EntityNames(rows) :
        Cardinality(RowsFor(rows, d, name)) >= 2 =>
            /\ IntCoercible(Get(rows[Latest(RowsFor(rows, d, name))], KLevel))
            /\ <<d, name>> \in DOMAIN levels_by_key
            /\ levels_by_key[<<d, name>>] = LevelOfRow(rows, Latest(RowsFor(rows, d, name)))

C9_LatestRowWins == FilterRan => LatestRowWins(Ledger)

\* C9, amended: for a (date, name) pair of the window with several rows, the
\* lookup holds the level of the latest-appended of those rows whose level is
\* integer-coercible, and no level when none is.
LatestCoercibleRowWins(rows) ==
    \A d \in Range(window_dates) : \A name \in EntityNames(rows) :
        Cardinality(RowsFor(rows, d, name)) >= 2 =>
            IF CoercibleRowsFor(rows, d, name) = {}
            THEN <<d, name>> \notin DOMAIN levels_by_key
            ELSE /\ <<d, name>> \in DOMAIN levels_by_key
                 /\ levels_by_key[<<d, name>>] = RecordedLevel(rows, d, name)

C9_LatestCoercibleRowWins == FilterRan => LatestCoercibleRowWins(Ledger)

OverwrittenPair(rows) ==
    \E d \in Range(window_dates) : \E name \in EntityNames(rows) :
        /\ Cardinality(CoercibleRowsFor(rows, d, name)) >= 2
        /\ <<d, name>> \in DOMAIN levels_by_key
        /\ levels_by_key[<<d, name>>] # LevelOfRow(rows, Earliest(CoercibleRowsFor(rows, d, name)))

C9_Witness == FilterRan /\ OverwrittenPair(Ledger)

\* C10: with at least 2 distinct dates and a size <= 0, the trend window is
\* empty.
EmptyWindowForNoSize(rows) ==
    (Analyzed /\ call.n_days <= 0 /\ Cardinality(LedgerDates(rows)) >= 2) =>
        window_dates = <<>>

C10_EmptyWindowForNoSize == EmptyWindowForNoSize(Ledger)

====
